---- MODULE Spec2Model ----
(***************************************************************************)
(* SpellBound (spellbound-kids): the puzzle round of App.tsx as a state    *)
(* machine.  The React state (gameState, feedback, selectedChoiceId) is    *)
(* the state; every event handler is one action, because React runs a      *)
(* handler to completion and re-renders before the next discrete event.    *)
(* The two awaited calls of startNewRound (generatePuzzle and              *)
(* generatePuzzleImage) are the only asynchronous steps: each is a request *)
(* in flight that the environment resolves later.                          *)
(*                                                                         *)
(* Encoding.  A word is a sequence of one-letter strings and word[i] of    *)
(* the code is CharAt(word, i) (0-based, Undefined out of range).  null,   *)
(* undefined and "" for an id are all the falsy Null.  A choice id         *)
(* `choice-${i}-${Date.now()}` is the pair <<i, now>>.  userAnswers is a   *)
(* function from the slot indices that are bound to the ids bound there.   *)
(* The hint of a puzzle and the difficulty only feed the display and the   *)
(* prompt, so they are left out.                                           *)
(***************************************************************************)
EXTENDS Integers, Sequences, FiniteSets, TLC

VARIABLES
    status,            \* gameState.status
    puzzle,            \* gameState.puzzle: <<>> (null) or <<[word, missingIndices]>>
    imageUrl,          \* gameState.imageUrl: Null or the url <<word, request>>
    choices,           \* gameState.choices: sequence of [id, char]
    userAnswers,       \* gameState.userAnswers
    errorMessage,      \* gameState.errorMessage
    feedback,          \* feedback
    selectedChoiceId,  \* selectedChoiceId
    round,             \* number of startNewRound calls so far (also the clock of Date.now())
    pendingImages,     \* generatePuzzleImage promises not yet settled: {<<word, request>>}
    last               \* the click or drop handled last (history)

vars == <<status, puzzle, imageUrl, choices, userAnswers, errorMessage,
          feedback, selectedChoiceId, round, pendingImages, last>>

(***************************************************************************)
(* Bounds of the exploration.                                              *)
(***************************************************************************)
\* Rounds started by one session.
MaxRounds == 2

Null == <<>>
Undefined == "undefined"
NoSlot == 0 - 1
\* Payloads a drop delivers that are not ids of the round's tiles
\* (text dragged from elsewhere).
ForeignIds == {<<-1, 0>>}

(***************************************************************************)
(* constants.ts (ALPHABET, FALLBACK_PUZZLES) is not among the sources.     *)
(* A distractor matters only through its letter being or not being the     *)
(* hidden one: with the alphabet "A" both happen, since the puzzles below   *)
(* hide "B" in one word and "A" in another.  The fallback puzzles are taken *)
(* to be well formed.                                                       *)
(***************************************************************************)
ALPHABET == <<"A">>
FALLBACK_PUZZLES == {[word |-> <<"A", "B">>, missingIndices |-> <<1>>]}

\* JSON the model may answer with (JSON.parse(response.text)).
RawResponses ==
    { [word |-> <<"a", "b">>, missingIndices |-> <<1>>],
      [word |-> <<"A", "A">>, missingIndices |-> <<0, 1>>],
      [word |-> <<"A", "B">>, missingIndices |-> <<1, 1>>],
      [word |-> <<"A", "B">>, missingIndices |-> <<-1, 2>>],
      [word |-> <<"A", "B">>, missingIndices |-> <<1, 1, 1, 1, 1, 1, 1>>],
      [word |-> <<>>,         missingIndices |-> <<0>>] }

(***************************************************************************)
(* Pure helpers.                                                           *)
(***************************************************************************)
Range(f) == { f[x] : x \in DOMAIN f }

\* word[i]
CharAt(word, i) == IF i >= 0 /\ i < Len(word) THEN word[i + 1] ELSE Undefined

\* String.prototype.toUpperCase, letter by letter
UpperChar(c) == CASE c = "a" -> "A" [] c = "b" -> "B" [] OTHER -> c
toUpperCase(word) == [k \in 1..Len(word) |-> UpperChar(word[k])]

\* Mutant: the whole object is emptied.
Delete_all(obj, key) == <<>>

\* delete obj[key]
Delete(obj, key) == [k \in DOMAIN obj \ {key} |-> obj[k]]

(***************************************************************************)
(* services/geminiService.ts                                               *)
(***************************************************************************)
\* data.missingIndices.filter(i => i >= 0 && i < data.word.length)
ValidIndices(word, indices) ==
    SelectSeq(indices, LAMBDA i : i >= 0 /\ i < Len(word))

\* The answer of the model, upper-cased and with its indices validated.
ParsedPuzzle(data) ==
    LET word == toUpperCase(data.word)
    IN  [word |-> word, missingIndices |-> ValidIndices(word, data.missingIndices)]

\* Every value generatePuzzle can resolve with: a parsed answer, or a fallback
\* puzzle (returned as it is, without validation).
generatePuzzle == { ParsedPuzzle(data) : data \in RawResponses } \cup FALLBACK_PUZZLES

\* What generatePuzzleImage can resolve with for one request: a url or null.
generatePuzzleImage(task) == {task, Null}

(***************************************************************************)
(* App.tsx, startNewRound: the choice pool.                                *)
(***************************************************************************)
PoolSize == 6

correctLetters(p) ==
    [k \in 1..Len(p.missingIndices) |-> CharAt(p.word, p.missingIndices[k])]

lettersNeeded(p) == PoolSize - Len(correctLetters(p))

\* The distractor lists the loop can push: lettersNeeded draws from ALPHABET
\* (none when lettersNeeded <= 0).
Distractors(p) ==
    [1..(IF lettersNeeded(p) > 0 THEN lettersNeeded(p) ELSE 0) -> Range(ALPHABET)]

\* poolChars.map((char, i) => ({ id: `choice-${i}-${Date.now()}`, char }))
Tiles(poolChars, now) ==
    [k \in 1..Len(poolChars) |-> [id |-> <<k - 1, now>>, char |-> poolChars[k]]]

\* .sort(() => Math.random() - 0.5) leaves the tiles in some other order.  The
\* exploration follows one such order, the reverse of the construction order:
\* a tile is only ever looked up by its id (FindChoice), never by its place.
Shuffles(tiles) ==
    { [k \in 1..Len(tiles) |-> tiles[Len(tiles) + 1 - k]] }

ChoicePools(p, now) ==
    UNION { Shuffles(Tiles(correctLetters(p) \o d, now)) : d \in Distractors(p) }

(***************************************************************************)
(* What renderGame shows, which decides the events that can happen.        *)
(***************************************************************************)
GameShown == status \in {"playing", "success"} /\ puzzle # Null

\* Mutant: the solved game is not locked.
isGameLocked_never == FALSE

isGameLocked == status = "success"
Word == puzzle[1].word
MissingIndices == puzzle[1].missingIndices

\* letters.map((char, idx) => ... missingIndices.includes(idx) ...)
SlotIndices == { idx \in 0..(Len(Word) - 1) : idx \in Range(MissingIndices) }

ChoiceIds == { c.id : c \in Range(choices) }

\* gameState.choices.find(c => c.id === choiceId): <<the first such tile>>, or
\* <<>> for undefined
FindChoice(choiceId) ==
    LET hits == { k \in 1..Len(choices) : choices[k].id = choiceId }
    IN  IF hits = {} THEN <<>>
        ELSE <<choices[CHOOSE k \in hits : \A j \in hits : k <= j]>>

\* choice?.char
CharOf(found) == IF found = <<>> THEN Undefined ELSE found[1].char

\* gameState.userAnswers[index]: undefined (Null) for a slot that is not bound
AnswerAt(index) == IF index \in DOMAIN userAnswers THEN userAnswers[index] ELSE Null

\* Mutant: no tile counts as placed.
isUsed_never(choiceId) == FALSE

\* Object.values(gameState.userAnswers).includes(choiceId)
isUsed(choiceId) == choiceId \in Range(userAnswers)

\* A slot is drawn "slot-filled" when its answer resolves to a tile.
SlotFilled(idx) == idx \in DOMAIN userAnswers /\ FindChoice(userAnswers[idx]) # <<>>

\* Pool tiles drawn as "pool" pieces (clickable, draggable).
PoolPieces == { id \in ChoiceIds : ~isUsed(id) }

\* e.dataTransfer.getData("text/plain") of a drop
DropPayloads == ChoiceIds \cup ForeignIds \cup {Null}

\* disabled={Object.keys(gameState.userAnswers).length !== missingIndices.length}
CheckDisabled == Cardinality(DOMAIN userAnswers) # Len(MissingIndices)

\* The record of an event for `last`.  For a placement (slot >= 0 and an id)
\* it also keeps whether the placed tile was the armed one, the slot the
\* tile came from and whether the slot held a tile or a foreign payload, all
\* read before the handler ran.
Event(op, slot, id) ==
    LET placing == slot # NoSlot /\ id # Null /\ op \notin {"slotRemove", "dropFilled"}
        others  == { k \in DOMAIN userAnswers : k # slot /\ userAnswers[k] = id }
    IN  [op |-> op, slot |-> slot, id |-> id,
         armed |-> IF ~placing \/ selectedChoiceId = Null THEN "none"
                   ELSE IF selectedChoiceId = id THEN "same" ELSE "other",
         from |-> IF placing /\ others # {} THEN CHOOSE k \in others : TRUE ELSE NoSlot,
         over |-> IF ~placing \/ AnswerAt(slot) = Null THEN "none"
                  ELSE IF SlotFilled(slot) THEN "tile" ELSE "foreign"]

(***************************************************************************)
(* Initial state: useState(...) of App.                                    *)
(***************************************************************************)
Init ==
    /\ status = "idle"
    /\ puzzle = Null
    /\ imageUrl = Null
    /\ userAnswers = <<>>
    /\ choices = <<>>
    /\ errorMessage = ""
    /\ feedback = "none"
    /\ selectedChoiceId = Null
    /\ round = 0
    /\ pendingImages = {}
    /\ last = [op |-> "init", slot |-> NoSlot, id |-> Null, armed |-> "none", from |-> NoSlot,
               over |-> "none"]

(***************************************************************************)
(* startNewRound.  "Start Playing!" is on the start screen (idle) and      *)
(* "Next Word" replaces Check Answer once the status is success.           *)
(***************************************************************************)
\* Mutant: only the status is set; the previous round's state is kept.
startNewRound_statusOnly ==
    /\ status = "idle" \/ (GameShown /\ status = "success")
    /\ round < MaxRounds
    /\ status' = "loading"
    /\ round' = round + 1
    /\ last' = Event("start", NoSlot, Null)
    /\ UNCHANGED <<userAnswers, puzzle, imageUrl, choices, feedback, selectedChoiceId,
                   errorMessage, pendingImages>>

\* Up to the await of generatePuzzle.
startNewRound ==
    /\ status = "idle" \/ (GameShown /\ status = "success")
    /\ round < MaxRounds
    /\ status' = "loading"
    /\ userAnswers' = <<>>
    /\ puzzle' = Null
    /\ imageUrl' = Null
    /\ choices' = <<>>
    /\ feedback' = "none"
    /\ selectedChoiceId' = Null
    /\ round' = round + 1
    /\ last' = Event("start", NoSlot, Null)
    /\ UNCHANGED <<errorMessage, pendingImages>>

\* generatePuzzle resolved: the pool is built, the image request starts, the
\* status becomes playing.  The status is still loading here: the loading
\* screen offers no action.
startNewRoundResolved ==
    /\ status = "loading"
    /\ \E p \in generatePuzzle :
         \E pool \in ChoicePools(p, round) :
            /\ puzzle' = <<p>>
            /\ choices' = pool
            /\ pendingImages' = pendingImages \cup {<<p.word, round>>}
    /\ userAnswers' = <<>>
    /\ status' = "playing"
    /\ last' = Event("puzzle", NoSlot, Null)
    /\ UNCHANGED <<imageUrl, errorMessage, feedback, selectedChoiceId, round>>

\* Mutant: the catch block returns to the start screen.
startNewRoundCatch_idle ==
    /\ status = "loading"
    /\ status' = "idle"
    /\ errorMessage' = "Oops! Something went wrong."
    /\ last' = Event("catch", NoSlot, Null)
    /\ UNCHANGED <<puzzle, imageUrl, choices, userAnswers, feedback,
                   selectedChoiceId, round, pendingImages>>

\* The catch block: the awaited call rejected, or its value made the pool
\* construction throw.
startNewRoundCatch ==
    /\ status = "loading"
    /\ status' = "error"
    /\ errorMessage' = "Oops! Something went wrong."
    /\ last' = Event("catch", NoSlot, Null)
    /\ UNCHANGED <<puzzle, imageUrl, choices, userAnswers, feedback,
                   selectedChoiceId, round, pendingImages>>

\* Mutant: the callback spreads the state captured when the round was
\* requested instead of the previous state.
imageResolved_closure ==
    \E task \in pendingImages :
       \E url \in generatePuzzleImage(task) :
          /\ imageUrl' = IF url # Null THEN url ELSE imageUrl
          /\ userAnswers' = IF url # Null THEN <<>> ELSE userAnswers
          /\ feedback' = IF url # Null THEN "none" ELSE feedback
          /\ pendingImages' = pendingImages \ {task}
          /\ UNCHANGED <<status, puzzle, choices, errorMessage,
                         selectedChoiceId, round, last>>

\* generatePuzzleImage(puzzle.word).then(url => { if (url) setGameState(...) })
imageResolved ==
    \E task \in pendingImages :
       \E url \in generatePuzzleImage(task) :
          /\ imageUrl' = IF url # Null THEN url ELSE imageUrl
          /\ pendingImages' = pendingImages \ {task}
          /\ UNCHANGED <<status, puzzle, choices, userAnswers, errorMessage,
                         feedback, selectedChoiceId, round, last>>

(***************************************************************************)
(* placeLetter / removeLetter                                              *)
(***************************************************************************)
\* Mutant: the tile is left in the slot it was in.
RemoveUsedElsewhere_kept(answers, choiceId) == answers

\* Object.keys(newAnswers).forEach(key => { if (newAnswers[key] === choiceId) delete ... })
RemoveUsedElsewhere(answers, choiceId) ==
    [k \in { k \in DOMAIN answers : answers[k] # choiceId } |-> answers[k]]

\* Mutant: a slot that is bound keeps what it has.
Bind_keepsOld(answers, slotIndex, choiceId) ==
    [k \in DOMAIN answers \cup {slotIndex} |->
        IF k \in DOMAIN answers THEN answers[k] ELSE choiceId]

\* newAnswers[slotIndex] = choiceId
Bind(answers, slotIndex, choiceId) ==
    [k \in DOMAIN answers \cup {slotIndex} |->
        IF k = slotIndex THEN choiceId ELSE answers[k]]

\* Mutant: the selection is not cleared after placing.
placeLetter_keepsSelection(slotIndex, choiceId) ==
    /\ userAnswers' = Bind(RemoveUsedElsewhere(userAnswers, choiceId), slotIndex, choiceId)
    /\ feedback' = "none"
    /\ UNCHANGED <<status, puzzle, imageUrl, choices, errorMessage, selectedChoiceId,
                   round, pendingImages>>

placeLetter(slotIndex, choiceId) ==
    /\ userAnswers' = Bind(RemoveUsedElsewhere(userAnswers, choiceId), slotIndex, choiceId)
    /\ feedback' = "none"
    /\ selectedChoiceId' = Null
    /\ UNCHANGED <<status, puzzle, imageUrl, choices, errorMessage, round, pendingImages>>

\* Mutant: removing a tile leaves the feedback as it was.
removeLetter_keepsFeedback(slotIndex) ==
    /\ userAnswers' = Delete(userAnswers, slotIndex)
    /\ UNCHANGED <<status, puzzle, imageUrl, choices, errorMessage, selectedChoiceId,
                   round, pendingImages, feedback>>

\* delete newAnswers[slotIndex]; setGameState(...); setFeedback('none')
removeLetter(slotIndex) ==
    /\ userAnswers' = Delete(userAnswers, slotIndex)
    /\ feedback' = "none"
    /\ UNCHANGED <<status, puzzle, imageUrl, choices, errorMessage, selectedChoiceId,
                   round, pendingImages>>

Unchanged ==
    UNCHANGED <<status, puzzle, imageUrl, choices, userAnswers, errorMessage,
                feedback, selectedChoiceId, round, pendingImages>>

(***************************************************************************)
(* Drag and click handlers.  A locked piece has pointer-events: none and   *)
(* the pool is not drawn once the game is locked.                          *)
(***************************************************************************)
\* onDrop is given to "slot-empty" pieces only.
handleDrop(slotIndex, choiceId) ==
    /\ GameShown /\ ~isGameLocked
    /\ slotIndex \in SlotIndices /\ ~SlotFilled(slotIndex)
    /\ choiceId \in DropPayloads
    /\ last' = Event("drop", slotIndex, choiceId)
    /\ IF choiceId # Null THEN placeLetter(slotIndex, choiceId) ELSE Unchanged

\* A pool piece dropped on a "slot-filled" piece: PuzzlePiece's handleDragOver
\* allows the drop there, but the piece is given no onDrop, so no handler runs.
dropOnFilled(slotIndex, choiceId) ==
    /\ GameShown /\ ~isGameLocked
    /\ slotIndex \in SlotIndices /\ SlotFilled(slotIndex)
    /\ choiceId \in PoolPieces
    /\ last' = Event("dropFilled", slotIndex, choiceId)
    /\ Unchanged

\* The handler behind onClick of a "pool" piece.
handleChoiceClick(choiceId) ==
    /\ GameShown /\ ~isGameLocked
    /\ choiceId \in ChoiceIds
    /\ last' = Event("choice", NoSlot, choiceId)
    /\ IF isUsed(choiceId)
       THEN Unchanged
       ELSE /\ selectedChoiceId' = IF selectedChoiceId = choiceId THEN Null ELSE choiceId
            /\ UNCHANGED <<status, puzzle, imageUrl, choices, userAnswers, errorMessage,
                           feedback, round, pendingImages>>

\* Mutant: a bound slot is emptied first, whatever is armed.
handleSlotClick_removeFirst(slotIndex) ==
    /\ GameShown /\ ~isGameLocked
    /\ slotIndex \in SlotIndices
    /\ IF AnswerAt(slotIndex) # Null
       THEN /\ removeLetter(slotIndex)
            /\ last' = Event("slotRemove", slotIndex, userAnswers[slotIndex])
       ELSE IF selectedChoiceId # Null
            THEN /\ placeLetter(slotIndex, selectedChoiceId)
                 /\ last' = Event("slotPlace", slotIndex, selectedChoiceId)
            ELSE /\ Unchanged
                 /\ last' = Event("slotNone", slotIndex, Null)

\* onClick of a "slot-filled" or "slot-empty" piece.
handleSlotClick(slotIndex) ==
    /\ GameShown /\ ~isGameLocked
    /\ slotIndex \in SlotIndices
    /\ IF selectedChoiceId # Null
       THEN /\ placeLetter(slotIndex, selectedChoiceId)
            /\ last' = Event("slotPlace", slotIndex, selectedChoiceId)
       ELSE IF AnswerAt(slotIndex) # Null
            THEN /\ removeLetter(slotIndex)
                 /\ last' = Event("slotRemove", slotIndex, userAnswers[slotIndex])
            ELSE /\ Unchanged
                 /\ last' = Event("slotNone", slotIndex, Null)

(***************************************************************************)
(* checkAnswer                                                             *)
(***************************************************************************)
\* gameState.puzzle.missingIndices.every(idx => gameState.userAnswers[idx])
allFilled == \A k \in 1..Len(MissingIndices) : AnswerAt(MissingIndices[k]) # Null

\* One index of the second every(): choice?.char === word[index]
LetterMatches(index) ==
    CharOf(FindChoice(AnswerAt(index))) = CharAt(Word, index)

\* Mutant: some() instead of every().
isCorrect_some == \E k \in 1..Len(MissingIndices) : LetterMatches(MissingIndices[k])

isCorrect == \A k \in 1..Len(MissingIndices) : LetterMatches(MissingIndices[k])

\* Mutant: no completeness gate, and only the letters that are placed are verified.
checkAnswer_placedOnly ==
    IF puzzle = Null
    THEN Unchanged
    ELSE IF \A index \in DOMAIN userAnswers : LetterMatches(index)
         THEN /\ feedback' = "correct"
              /\ status' = "success"
              /\ UNCHANGED <<puzzle, imageUrl, choices, userAnswers, errorMessage,
                             selectedChoiceId, round, pendingImages>>
         ELSE /\ feedback' = "incorrect"
              /\ UNCHANGED <<status, puzzle, imageUrl, choices, userAnswers,
                             errorMessage, selectedChoiceId, round, pendingImages>>

checkAnswer ==
    IF puzzle = Null
    THEN Unchanged
    ELSE IF ~allFilled
         THEN /\ feedback' = "incorrect"
              /\ UNCHANGED <<status, puzzle, imageUrl, choices, userAnswers, errorMessage,
                             selectedChoiceId, round, pendingImages>>
         ELSE IF isCorrect
              THEN /\ feedback' = "correct"
                   /\ status' = "success"
                   /\ UNCHANGED <<puzzle, imageUrl, choices, userAnswers, errorMessage,
                                  selectedChoiceId, round, pendingImages>>
              ELSE /\ feedback' = "incorrect"
                   /\ UNCHANGED <<status, puzzle, imageUrl, choices, userAnswers,
                                  errorMessage, selectedChoiceId, round, pendingImages>>

\* A click on Check Answer: the button is drawn while the status is not success
\* and reacts unless disabled.
CheckAnswerClick ==
    /\ GameShown /\ status # "success"
    /\ ~CheckDisabled
    /\ checkAnswer
    /\ last' = Event("check", NoSlot, Null)

\* The handler run while the button is disabled (no event of the page does
\* this; it exercises the handler's own completeness gate).
VerifyRequest ==
    /\ GameShown /\ status # "success"
    /\ CheckDisabled
    /\ checkAnswer
    /\ last' = Event("verify", NoSlot, Null)

(***************************************************************************)
(* The two buttons that leave a screen.                                    *)
(***************************************************************************)
\* "Back" in the header of the game screen.
Back ==
    /\ GameShown
    /\ status' = "idle"
    /\ last' = Event("back", NoSlot, Null)
    /\ UNCHANGED <<puzzle, imageUrl, choices, userAnswers, errorMessage, feedback,
                   selectedChoiceId, round, pendingImages>>

\* "Go Back" on the error screen.
GoBack ==
    /\ status = "error"
    /\ status' = "idle"
    /\ last' = Event("goBack", NoSlot, Null)
    /\ UNCHANGED <<puzzle, imageUrl, choices, userAnswers, errorMessage, feedback,
                   selectedChoiceId, round, pendingImages>>

\* The slot pieces on the screen.
Slots == IF GameShown THEN SlotIndices ELSE {}

Drop == \E slotIndex \in Slots : \E choiceId \in DropPayloads : handleDrop(slotIndex, choiceId)
DropOnFilled == \E slotIndex \in Slots : \E choiceId \in ChoiceIds : dropOnFilled(slotIndex, choiceId)
\* Only the tiles drawn as "pool" pieces have the onClick.
ChoiceClick == \E choiceId \in PoolPieces : handleChoiceClick(choiceId)

\* The handler run for a placed tile, which the pool draws as a placeholder
\* without onClick (no event of the page does this).
ChoiceClickPlaced == \E choiceId \in ChoiceIds \ PoolPieces : handleChoiceClick(choiceId)
SlotClick == \E slotIndex \in Slots : handleSlotClick(slotIndex)

Next ==
    \/ startNewRound
    \/ startNewRoundResolved
    \/ startNewRoundCatch
    \/ imageResolved
    \/ Drop
    \/ ChoiceClick
    \/ SlotClick
    \/ CheckAnswerClick
    \/ Back
    \/ GoBack

Spec == Init /\ [][Next]_vars

\* The page's events, plus checkAnswer run directly.
NextHandler == Next \/ VerifyRequest

SpecHandler == Init /\ [][NextHandler]_vars

\* The page's events, plus the drop events that reach no handler.
NextDrop == Next \/ DropOnFilled

SpecDrop == Init /\ [][NextDrop]_vars

\* The page's events, plus handleChoiceClick run for placed tiles.
NextTap == Next \/ ChoiceClickPlaced

SpecTap == Init /\ [][NextTap]_vars

(***************************************************************************)
(* Properties.  These are stated from the claims and do not reuse the      *)
(* operators of checkAnswer.                                               *)
(***************************************************************************)
\* A step of the image callback: the only step that settles a pending request.
ImageStep == pendingImages' # pendingImages /\ pendingImages' \subseteq pendingImages

\* A step of the handler that records op.
EventStep(op) == last'.op = op /\ ~ImageStep

MissingSet == IF puzzle = Null THEN {} ELSE Range(MissingIndices)

\* Every missing position is bound.
AllBound == MissingSet \subseteq DOMAIN userAnswers

\* The tile bound to position i exists in the pool and carries word[i].
RightLetterAt(i) ==
    /\ i \in DOMAIN userAnswers
    /\ i >= 0 /\ i < Len(Word)
    /\ \E c \in Range(choices) : c.id = userAnswers[i] /\ c.char = Word[i + 1]

AllLettersRight == \A i \in MissingSet : RightLetterAt(i)

Placed == last.op \in {"drop", "slotPlace"} /\ last.id # Null

\* C1: after any sequence of drops, slot clicks and tile clicks, no tile id is
\* bound to two slots.
C1_SingleSlotPerTile ==
    \A s1, s2 \in DOMAIN userAnswers : userAnswers[s1] = userAnswers[s2] => s1 = s2

\* A pool tile that was bound to one slot has just been dropped on another.
C1_Witness ==
    /\ last.op = "drop" /\ last.from # NoSlot /\ last.id \in ChoiceIds
    /\ status = "playing"

\* C2: an illustration that resolves after a later round has started is
\* dropped: the image shown was requested by the current round.
C2_StaleImageDropped == imageUrl # Null => imageUrl[2] = round

\* C3: a verify request with every missing slot bound leads to solved exactly
\* when every bound tile carries the letter of its position; otherwise the
\* session stays active with incorrect feedback.
C3_VerifyComplete ==
    (last.op = "check" /\ AllBound) =>
        /\ (status = "success") <=> AllLettersRight
        /\ ~AllLettersRight => (status = "playing" /\ feedback = "incorrect")
        /\ AllLettersRight => feedback = "correct"

\* A puzzle with two missing positions has just been verified and solved.
C3_Witness ==
    /\ last.op = "check" /\ status = "success"
    /\ Cardinality(MissingSet) = 2 /\ AllBound /\ AllLettersRight

\* C4: a verify request with some missing slot unbound leaves the status
\* active and sets nothing but the incorrect feedback, whatever the letters
\* in the slots that are bound.
C4_VerifyIncomplete ==
    [][ ((VerifyRequest \/ CheckAnswerClick) /\ ~AllBound) =>
            /\ status = "playing" /\ status' = "playing"
            /\ feedback' = "incorrect"
            /\ UNCHANGED <<puzzle, imageUrl, choices, userAnswers, errorMessage,
                           selectedChoiceId, round, pendingImages>> ]_vars

\* A verify request has just been answered while one slot held its right
\* letter and another slot was unbound.
C4_Witness ==
    /\ last.op = "verify" /\ ~AllBound
    /\ \E i \in MissingSet : RightLetterAt(i)
    /\ status = "playing" /\ feedback = "incorrect"

\* C5: placing in slot s2 a tile that is bound to another slot s1 leaves s1
\* unbound and s2 bound to the tile.
C5_RePlacementDisplaces ==
    (Placed /\ last.from # NoSlot) =>
        /\ last.from \notin DOMAIN userAnswers
        /\ last.slot \in DOMAIN userAnswers
        /\ userAnswers[last.slot] = last.id

\* The tile has moved: its old slot is unbound, its new slot holds it.
C5_Witness ==
    /\ Placed /\ last.from # NoSlot /\ last.from # last.slot
    /\ AnswerAt(last.from) = Null /\ AnswerAt(last.slot) = last.id

\* C6: with an empty assignment and tile t armed by a tap, a drop of t on slot
\* s leaves the selection empty and the assignment {s: t}.
C6_SelectThenDrag ==
    [][ \A s \in Slots : \A t \in ChoiceIds :
            (userAnswers = <<>> /\ selectedChoiceId = t /\ handleDrop(s, t)) =>
                (selectedChoiceId' = Null /\ userAnswers' = (s :> t)) ]_vars

\* The armed tile has just been dropped on a slot and is the only tile placed.
C6_Witness ==
    /\ last.op = "drop" /\ last.armed = "same"
    /\ selectedChoiceId = Null
    /\ userAnswers = (last.slot :> last.id)

\* C7: every id stored in the assignment is the id of a tile of the pool.
C7_AnswersAreTiles == \A s \in DOMAIN userAnswers : userAnswers[s] \in ChoiceIds

\* C8 as stated: from solved the status can only become loading, and the
\* assignment and the selection stay as they are while solved.
C8_OnlyNextRound ==
    [][ status = "success" =>
            /\ status' \in {"success", "loading"}
            /\ status' = "success" =>
                  UNCHANGED <<userAnswers, selectedChoiceId>> ]_vars

\* C8 as amended: once solved, the assignment and the selection stay as they
\* are until a round is started (status loading), also on the start screen
\* that Back leads to; from solved the status becomes loading or idle only.
C8_LockedUntilNextRound ==
    [][ /\ status = "success" => status' \in {"success", "loading", "idle"}
        /\ (status \in {"success", "idle"} /\ status' # "loading") =>
              UNCHANGED <<userAnswers, selectedChoiceId>> ]_vars

\* Back was pressed on a solved game: the start screen, the assignment kept.
C8_Witness ==
    /\ status = "idle" /\ last.op = "back" /\ feedback = "correct"
    /\ userAnswers # <<>>

\* C9 as stated: the transitions of the specification's state machine.
StatedTransitions ==
    { <<"idle", "loading">>, <<"loading", "playing">>, <<"loading", "error">>,
      <<"playing", "success">>, <<"error", "loading">>, <<"success", "loading">> }

C9_StatedTransitions ==
    [][ status' # status => <<status, status'>> \in StatedTransitions ]_vars

\* C9 as amended: Back leads from active and solved to idle, Go Back leads
\* from failed to idle and is the only way out of failed.
AmendedTransitions ==
    { <<"idle", "loading">>, <<"loading", "playing">>, <<"loading", "error">>,
      <<"playing", "success">>, <<"success", "loading">>,
      <<"playing", "idle">>, <<"success", "idle">>, <<"error", "idle">> }

C9_AmendedTransitions ==
    [][ status' # status => <<status, status'>> \in AmendedTransitions ]_vars

\* Go Back was pressed on the error screen.
C9_Witness == status = "idle" /\ last.op = "goBack" /\ errorMessage # ""

\* C10: a round is never active or solved with a puzzle whose word is empty
\* or that has no missing position.
C10_InvalidPuzzleRejected ==
    status \in {"playing", "success"} =>
        /\ puzzle # Null
        /\ Len(Word) > 0
        /\ Len(MissingIndices) > 0

\* C11: when the puzzle request fails the session is failed with the
\* user-facing message, and no puzzle, pool or assignment is established.
C11_FailedWithoutPartialState ==
    (status = "error" \/ last.op = "catch") =>
        /\ last.op = "catch" /\ status = "error"
        /\ errorMessage = "Oops! Something went wrong."
        /\ puzzle = Null /\ choices = <<>> /\ userAnswers = <<>>

\* The request of a second round has failed, after a round that had a puzzle.
C11_Witness == status = "error" /\ last.op = "catch" /\ round = 2 /\ pendingImages # {}

\* C19: when a round becomes active its assignment and selection are empty
\* and the feedback is none.
C19_RoundStartsClean ==
    last.op = "puzzle" =>
        /\ status = "playing"
        /\ userAnswers = <<>> /\ selectedChoiceId = Null /\ feedback = "none"

\* A second round has just become active.
C19_Witness == last.op = "puzzle" /\ status = "playing" /\ round = 2

\* C18: the arrival of an illustration result changes only the illustration
\* field: status, puzzle, pool, assignment, selection and feedback are
\* unchanged, whenever it arrives.
C18_ImageArrivalFrame ==
    [][ImageStep =>
          UNCHANGED <<status, puzzle, choices, userAnswers, selectedChoiceId,
                      feedback, errorMessage>>]_vars

\* An illustration has arrived and was stored while the session was loading.
C18_Witness == status = "loading" /\ imageUrl # Null

\* C13: removing the tile of slot s leaves the assignment without s and
\* otherwise as it was, so that removing again gives the same assignment as
\* removing once; removing from an unbound slot changes nothing in the
\* assignment.
C13_RemoveIdempotent ==
    [][(EventStep("slotRemove") \/ EventStep("slotNone")) =>
          LET s == last'.slot
          IN  /\ userAnswers' = [k \in DOMAIN userAnswers \ {s} |-> userAnswers[k]]
              /\ Delete(userAnswers', s) = userAnswers'
              /\ (s \notin DOMAIN userAnswers => userAnswers' = userAnswers)]_vars

\* A tile has just been removed from its slot while another slot stays bound.
C13_Witness ==
    /\ last.op = "slotRemove" /\ last.slot \notin DOMAIN userAnswers
    /\ userAnswers # <<>>

\* C17: a click on a slot while a tile is armed binds the slot to the armed
\* tile and clears the selection in the same step; with no tile armed, a
\* click on a bound slot unbinds it and a click on an unbound slot changes
\* nothing.
C17_SlotClick ==
    [][(EventStep("slotPlace") \/ EventStep("slotRemove") \/ EventStep("slotNone")) =>
          LET s == last'.slot
          IN  IF selectedChoiceId # Null
              THEN /\ s \in DOMAIN userAnswers'
                   /\ userAnswers'[s] = selectedChoiceId
                   /\ selectedChoiceId' = Null
              ELSE IF s \in DOMAIN userAnswers
                   THEN /\ s \notin DOMAIN userAnswers'
                        /\ selectedChoiceId' = Null
                   ELSE UNCHANGED <<status, puzzle, imageUrl, choices, userAnswers,
                                    errorMessage, feedback, selectedChoiceId>>]_vars

\* The armed tile has just been placed by a click while another slot is
\* bound too, and the selection is cleared.
C17_Witness ==
    /\ last.op = "slotPlace" /\ last.armed = "same"
    /\ AnswerAt(last.slot) = last.id /\ selectedChoiceId = Null
    /\ Cardinality(DOMAIN userAnswers) > 1

\* C20: while the feedback is incorrect, the next placement or removal sets
\* it to none, and a tile selection or the arrival of an illustration leaves
\* it incorrect.
C20_FeedbackCleared ==
    [][feedback = "incorrect" =>
          /\ (EventStep("drop") /\ last'.id # Null) => feedback' = "none"
          /\ (EventStep("slotPlace") \/ EventStep("slotRemove")) => feedback' = "none"
          /\ EventStep("choice") => feedback' = "incorrect"
          /\ ImageStep => feedback' = "incorrect"]_vars

\* A tile was selected after a verify that failed, and the feedback is still
\* incorrect.
C20_Witness ==
    /\ last.op = "choice" /\ selectedChoiceId # Null
    /\ feedback = "incorrect" /\ status = "playing"

\* C12: the choice pool of every round that becomes active has exactly 6
\* tiles with pairwise distinct ids, and for every missing position a tile
\* carrying that position's letter.
C12_PoolComposition ==
    (status \in {"playing", "success"} /\ puzzle # Null) =>
        /\ Len(choices) = 6
        /\ \A j, k \in 1..Len(choices) : choices[j].id = choices[k].id => j = k
        /\ \A m \in 1..Len(MissingIndices) :
              \E k \in 1..Len(choices) : choices[k].char = CharAt(Word, MissingIndices[m])

\* C14: after a drop event on a slot, empty or filled, the dropped tile is in
\* that slot and the selection is empty.
C14_DropAlwaysPlaces ==
    (last.op \in {"drop", "dropFilled"} /\ last.id # Null) =>
        /\ AnswerAt(last.slot) = last.id
        /\ selectedChoiceId = Null

\* C15: placing tile t in a slot that holds a different tile u binds the slot
\* to t and leaves u unplaced: u is in no slot, the pool is as it was, and u
\* is drawn as a pool piece again, where it can be selected or dragged.
C15_ReplacedTileUnplaced ==
    [][(EventStep("slotPlace") /\ last'.over = "tile") =>
          LET s == last'.slot
              t == last'.id
              u == userAnswers[s]
          IN  /\ t = selectedChoiceId /\ u # t
              /\ s \in DOMAIN userAnswers' /\ userAnswers'[s] = t
              /\ u \notin Range(userAnswers')
              /\ choices' = choices
              /\ GameShown' /\ ~isGameLocked' /\ u \in PoolPieces']_vars

\* The armed tile has just been placed in a slot that held another tile.
C15_Witness ==
    /\ last.op = "slotPlace" /\ last.over = "tile"
    /\ AnswerAt(last.slot) = last.id /\ last.id \in ChoiceIds

\* C16: tapping a tile that is placed changes nothing; tapping the selected
\* tile clears the selection; tapping another unplaced tile makes it the
\* selected tile.  The assignment is unchanged in all three cases.
C16_TapSelects ==
    [][EventStep("choice") =>
          LET c == last'.id
          IN  /\ userAnswers' = userAnswers
              /\ UNCHANGED <<status, puzzle, imageUrl, choices, errorMessage, feedback>>
              /\ selectedChoiceId' =
                    IF c \in Range(userAnswers) THEN selectedChoiceId
                    ELSE IF selectedChoiceId = c THEN Null ELSE c]_vars

\* A placed tile has just been tapped.
C16_Witness == last.op = "choice" /\ last.id \in Range(userAnswers)

\* C21: in every reachable state the selected tile, if there is one, is bound
\* to no slot.
C21_ArmedTileUnplaced ==
    selectedChoiceId # Null => selectedChoiceId \notin Range(userAnswers)

\* A tile has just been armed while both slots of the puzzle are bound.
C21_Witness ==
    /\ selectedChoiceId # Null /\ last.op = "choice"
    /\ selectedChoiceId \in PoolPieces
    /\ Cardinality(DOMAIN userAnswers) = 2

\* C22: whenever the status is success, every missing position is bound to a
\* pool tile carrying the word's letter at that position, and the feedback is
\* correct.
C22_SolvedMeansRight ==
    status = "success" =>
        /\ puzzle # Null
        /\ AllBound /\ AllLettersRight
        /\ feedback = "correct"

\* The second round's puzzle, with two missing positions, is solved.
C22_Witness ==
    /\ status = "success" /\ round = 2
    /\ Cardinality(MissingSet) = 2 /\ feedback = "correct"

\* C23: in every active state Check Answer is enabled, the number of bound
\* slots being the number of entries of missingIndices, exactly when every
\* missing position is bound.
C23_EnabledIffComplete ==
    (status = "playing" /\ puzzle # Null) =>
        ((Cardinality(DOMAIN userAnswers) = Len(MissingIndices)) <=> AllBound)

====
